---------------------------- MODULE Spec2Model ----------------------------
(***************************************************************************)
(* The durative-action compiler (engines/convert_problem.py), the MDP over *)
(* the compiled problem (engines/mdp.py), the nodes of the search tree     *)
(* (engines/node.py) and the search and planner drivers                    *)
(* (engines/solvers/mcts.py).                                              *)
(*                                                                         *)
(* A ground fluent is a string; a precondition or an effect is a pair      *)
(* <<fluent, value>>.  A state is the set of the fluents that are true.    *)
(* An original action is a record                                          *)
(*   [name, kind, duration, pre, pre_START, pre_OVERALL, pre_END,          *)
(*    start_effects, effects, probabilistic_effects]                       *)
(* where kind is "DurativeAction" or "model.InstantaneousAction", `pre` is *)
(* an instantaneous action's preconditions, and probabilistic_effects is   *)
(* a sequence of sets of fluents (each element is one effect's `fluents`). *)
(* A compiled action is a record                                           *)
(*   [name, kind, duration, pos_preconditions, neg_preconditions,          *)
(*    add_effects, del_effects, probabilistic_effects, start, end]         *)
(* where start / end hold the name of the paired action ("" when none).    *)
(***************************************************************************)
EXTENDS Naturals, Integers, Sequences, FiniteSets, TLC

VARIABLES
    original,     \* Convert_problem._original_problem._actions
    converted,    \* Convert_problem._converted_problem._actions
    initial,      \* the fluents the problem's initial values make true
    goals,        \* problem.goals
    state,        \* the predicates of the current MDP state
    last,         \* the name of the action of the latest step ("" before any)
    terminal,     \* the terminal flag the latest step returned
    reward,       \* the reward the latest step returned
    tree,         \* the SNodes of the search tree, by their path from the root
    driver,       \* the locals of plan or combination_plan, and what it returned
    runs,         \* two runs of the program: state, returned action, generators
    objects       \* the set objects a step works on, and the State objects

vars ==
    <<original, converted, initial, goals, state, last, terminal, reward,
      tree, driver, runs, objects>>

\* Durations of the durative actions range over 1..MaxDur.
MaxDur == 3

Fluents == {"f"}

Durations == 1..MaxDur

----------------------------------------------------------------------------
(* Names, objects and predicates                                           *)

\* the object "start-" + action.name created for a durative action
object_start(name) == "start-" \o name

\* the ground fluent self._inExecution(object)
inExecution(obj) == "inExecution(" \o obj \o ")"

start_name(name) == "start_" \o name

end_name(name) == "end_" \o name

isDurative(a) == a.kind = "DurativeAction"

\* The elements of a sequence
Range(s) == {s[i] : i \in 1..Len(s)}

\* functools.reduce(operator.iconcat, [pe.fluents for pe in ...], [])
RECURSIVE pe_fluents(_)
pe_fluents(pes) ==
    IF pes = <<>> THEN {} ELSE Head(pes) \cup pe_fluents(Tail(pes))

----------------------------------------------------------------------------
(* engines.Action: preconditions and effects split by sign                 *)

EmptyAction(name, kind) ==
    [name |-> name, kind |-> kind, duration |-> 0,
     pos_preconditions |-> {}, neg_preconditions |-> {},
     add_effects |-> {}, del_effects |-> {},
     probabilistic_effects |-> <<>>, start |-> "", end |-> ""]

\* Action.add_precondition(fluent, value)
add_precondition(a, fluent, value) ==
    IF value
    THEN [a EXCEPT !.pos_preconditions = @ \cup {fluent}]
    ELSE [a EXCEPT !.neg_preconditions = @ \cup {fluent}]

\* Action.add_preconditions(list of preconditions)
add_preconditions(a, ps) ==
    [a EXCEPT !.pos_preconditions = @ \cup {p[1] : p \in {q \in ps : q[2]}},
              !.neg_preconditions = @ \cup {p[1] : p \in {q \in ps : ~q[2]}}]

\* Action.add_effect(fluent, value)
add_effect(a, fluent, value) ==
    IF value
    THEN [a EXCEPT !.add_effects = @ \cup {fluent}]
    ELSE [a EXCEPT !.del_effects = @ \cup {fluent}]

\* Action._set_effects(list of effects)
set_effects(a, es) ==
    [a EXCEPT !.add_effects = {e[1] : e \in {q \in es : q[2]}},
              !.del_effects = {e[1] : e \in {q \in es : ~q[2]}}]

\* Precondition.same_effect(effect): same fluent and same value
same_effect(p, e) == p[1] = e[1] /\ p[2] = e[2]

----------------------------------------------------------------------------
(* Convert_problem._split_durative_actions                                 *)

\* make_start_action without the OVERALL preconditions
make_start_action_no_overall(action) ==
    LET obj == object_start(action.name)
        a0  == [EmptyAction(start_name(action.name), "InstantaneousStartAction")
                  EXCEPT !.duration = action.duration]
        a1  == set_effects(a0, action.start_effects)
        a2  == add_effect(a1, inExecution(obj), TRUE)
        a3  == add_precondition(a2, inExecution(obj), FALSE)
        a4  == [a3 EXCEPT !.end = end_name(action.name)]
    IN  add_preconditions(a4, action.pre_START)

\* make_start_action adding every OVERALL precondition
make_start_action_all_overall(action) ==
    LET obj == object_start(action.name)
        a0  == [EmptyAction(start_name(action.name), "InstantaneousStartAction")
                  EXCEPT !.duration = action.duration]
        a1  == set_effects(a0, action.start_effects)
        a2  == add_effect(a1, inExecution(obj), TRUE)
        a3  == add_precondition(a2, inExecution(obj), FALSE)
        a4  == [a3 EXCEPT !.end = end_name(action.name)]
        a5  == add_preconditions(a4, action.pre_START)
    IN  add_preconditions(a5, action.pre_OVERALL)

\* lines 72-82, 89, 93-101: the start action of a durative action
make_start_action(action) ==
    LET obj  == object_start(action.name)
        a0   == [EmptyAction(start_name(action.name), "InstantaneousStartAction")
                   EXCEPT !.duration = action.duration]
        a1   == set_effects(a0, action.start_effects)
        a2   == add_effect(a1, inExecution(obj), TRUE)
        a3   == add_precondition(a2, inExecution(obj), FALSE)
        a4   == [a3 EXCEPT !.end = end_name(action.name)]
        a5   == add_preconditions(a4, action.pre_START)
        \* an OVERALL precondition that a start effect satisfies is not added
        oa_p == {p \in action.pre_OVERALL :
                    \A e \in action.start_effects : ~same_effect(p, e)}
    IN  add_preconditions(a5, oa_p)

\* lines 83-90, 103-106: the end action of a durative action
make_end_action(action) ==
    LET obj == object_start(action.name)
        a0  == EmptyAction(end_name(action.name), "InstantaneousEndAction")
        a1  == set_effects(a0, action.effects)
        a2  == add_effect(a1, inExecution(obj), FALSE)
        a3  == [a2 EXCEPT !.probabilistic_effects = action.probabilistic_effects]
        a4  == [a3 EXCEPT !.start = start_name(action.name)]
        a5  == add_preconditions(a4, action.pre_END)
    IN  add_precondition(a5, inExecution(obj), TRUE)

\* lines 68-111: the loop appends a start and an end action per durative action
RECURSIVE split_loop(_, _)
split_loop(actions, i) ==
    IF i > Len(actions) THEN actions
    ELSE IF isDurative(actions[i])
         THEN split_loop(actions \o <<make_start_action(actions[i]),
                                      make_end_action(actions[i])>>, i + 1)
         ELSE split_loop(actions, i + 1)

\* remove_durative that keeps the whole list
remove_durative_none(actions) == actions

\* lines 114-115: the durative actions are removed from the list
remove_durative(actions) == SelectSeq(actions, LAMBDA a : ~isDurative(a))

split_durative_actions(actions) == remove_durative(split_loop(actions, 1))

\* lines 109: the objects added to the converted problem
converted_objects(actions) ==
    {object_start(a.name) : a \in {b \in Range(actions) : isDurative(b)}}

----------------------------------------------------------------------------
(* Convert_problem._convert_model_engine_actions                           *)

\* init_from_action leaving the effects out
init_from_action_no_effects(action) ==
    LET a0 == EmptyAction(action.name, "InstantaneousAction")
        a1 == add_preconditions(a0, action.pre)
    IN  [a1 EXCEPT !.probabilistic_effects = action.probabilistic_effects]

\* engines.InstantaneousAction.init_from_action
init_from_action(action) ==
    LET a0 == EmptyAction(action.name, "InstantaneousAction")
        a1 == add_preconditions(a0, action.pre)
        a2 == set_effects(a1, action.effects)
    IN  [a2 EXCEPT !.probabilistic_effects = action.probabilistic_effects]

isModelInstantaneous(a) == a.kind = "model.InstantaneousAction"

\* lines 123-134: every model action is removed and its engine action appended
convert_model_engine_actions(actions) ==
    LET remove == SelectSeq(actions, isModelInstantaneous)
        keep   == SelectSeq(actions, LAMBDA a : ~isModelInstantaneous(a))
    IN  keep \o [i \in 1..Len(remove) |-> init_from_action(remove[i])]

----------------------------------------------------------------------------
(* Convert_problem: the assignments of an original action                  *)

\* lines 258-273
negative_start_assignment(action) ==
    IF isDurative(action)
    THEN {de[1] : de \in {e \in action.start_effects : ~e[2]}}
    ELSE {e[1] : e \in {x \in action.effects : ~x[2]}}
            \cup pe_fluents(action.probabilistic_effects)

\* lines 275-290
positive_start_assignment(action) ==
    IF isDurative(action)
    THEN {de[1] : de \in {e \in action.start_effects : e[2]}}
    ELSE {e[1] : e \in {x \in action.effects : x[2]}}
            \cup pe_fluents(action.probabilistic_effects)

\* lines 244-256
negative_end_assignment(action) ==
    IF isDurative(action)
    THEN {e[1] : e \in {x \in action.effects : ~x[2]}}
            \cup pe_fluents(action.probabilistic_effects)
    ELSE {}

\* lines 292-304
positive_end_assignment(action) ==
    IF isDurative(action)
    THEN {e[1] : e \in {x \in action.effects : x[2]}}
            \cup pe_fluents(action.probabilistic_effects)
    ELSE {}

\* lines 177-187: <<neg_effect, pos_effect>>
all_effects(action) ==
    <<negative_start_assignment(action) \cup negative_end_assignment(action),
      positive_start_assignment(action) \cup positive_end_assignment(action)>>

\* conflicting_outcomes without the "or vice versa" half
conflicting_outcomes_one_way(action, potential_action) ==
    all_effects(potential_action)[1] \cap all_effects(action)[2] # {}

\* lines 202-205: the conflicting outcomes of two actions
conflicting_outcomes(action, potential_action) ==
    LET neg_effect           == all_effects(action)[1]
        pos_effect           == all_effects(action)[2]
        neg_potential_effect == all_effects(potential_action)[1]
        pos_potential_effect == all_effects(potential_action)[2]
    IN  \/ neg_potential_effect \cap pos_effect # {}
        \/ pos_potential_effect \cap neg_effect # {}

\* overall_start_conflict comparing for the same value, not the opposite one
overall_start_conflict_same_value(action, potential_action) ==
    LET neg == negative_start_assignment(potential_action)
        pos == positive_start_assignment(potential_action)
    IN  \/ \E x \in action.pre_OVERALL : x[1] \in neg /\ ~x[2]
        \/ \E x \in action.pre_OVERALL : x[1] \in pos /\ x[2]

\* lines 210-217: a start assignment of potential_action against an OVERALL
\* precondition of action
overall_start_conflict(action, potential_action) ==
    LET neg       == negative_start_assignment(potential_action)
        pos       == positive_start_assignment(potential_action)
        neg_mutex == \E x \in action.pre_OVERALL : x[1] \in neg /\ x[2]
        pos_mutex == \E x \in action.pre_OVERALL : x[1] \in pos /\ ~x[2]
    IN  neg_mutex \/ pos_mutex

\* check_mutex that stops after the conflicting outcomes
check_mutex_outcomes_only(action, potential_action) ==
    conflicting_outcomes(action, potential_action)

\* lines 189-219
check_mutex(action, potential_action) ==
    IF conflicting_outcomes(action, potential_action) THEN TRUE
    ELSE IF action.pre_OVERALL = {} THEN FALSE
    ELSE overall_start_conflict(action, potential_action)

\* check_soft_mutex reading the start assignments of potential_action
check_soft_mutex_start_phase(action, potential_action) ==
    IF action.pre_OVERALL = {} THEN FALSE
    ELSE overall_start_conflict(action, potential_action)

\* lines 221-242
check_soft_mutex(action, potential_action) ==
    IF action.pre_OVERALL = {} THEN FALSE
    ELSE LET neg       == negative_end_assignment(potential_action)
             pos       == positive_end_assignment(potential_action)
             neg_mutex == \E x \in action.pre_OVERALL : x[1] \in neg /\ x[2]
             pos_mutex == \E x \in action.pre_OVERALL : x[1] \in pos /\ ~x[2]
         IN  neg_mutex \/ pos_mutex

----------------------------------------------------------------------------
(* Convert_problem: adding the mutex preconditions                         *)

\* action_by_name(name).add_precondition(fluent, value) on the converted list
add_precondition_by_name(conv, name, fluent, value) ==
    [i \in 1..Len(conv) |->
        IF conv[i].name = name THEN add_precondition(conv[i], fluent, value)
        ELSE conv[i]]

\* lines 306-323
adding_precondition_mutex_actions(conv, action, conflicting_action) ==
    LET start_action_object == object_start(action.name)
    IN  IF isDurative(conflicting_action)
        THEN add_precondition_by_name(conv, start_name(conflicting_action.name),
                                      inExecution(start_action_object), FALSE)
        ELSE add_precondition_by_name(conv, conflicting_action.name,
                                      inExecution(start_action_object), FALSE)

\* adding_precondition_soft_mutex_actions addressing the start action
adding_precondition_soft_mutex_on_start(conv, action, conflicting_action) ==
    add_precondition_by_name(conv, start_name(conflicting_action.name),
                             inExecution(object_start(action.name)), FALSE)

\* lines 325-338
adding_precondition_soft_mutex_actions(conv, action, conflicting_action) ==
    LET start_action_object == object_start(action.name)
    IN  add_precondition_by_name(conv, end_name(conflicting_action.name),
                                 inExecution(start_action_object), FALSE)

\* time_mutex with >= for >
time_mutex_geq(conv, action, potential_action) ==
    IF isDurative(potential_action)
       /\ action.duration >= potential_action.duration
    THEN adding_precondition_mutex_actions(conv, potential_action, action)
    ELSE conv

\* time_mutex with the two actions exchanged in the call
time_mutex_swapped(conv, action, potential_action) ==
    IF isDurative(potential_action)
       /\ action.duration > potential_action.duration
    THEN adding_precondition_mutex_actions(conv, action, potential_action)
    ELSE conv

\* lines 165-167: the longer action may not start while the shorter one runs
time_mutex(conv, action, potential_action) ==
    IF isDurative(potential_action)
       /\ action.duration > potential_action.duration
    THEN adding_precondition_mutex_actions(conv, potential_action, action)
    ELSE conv

\* lines 157-167: the body of the inner loop
mutex_pair(conv, action, potential_action) ==
    IF potential_action = action THEN conv
    ELSE LET c1 == IF check_mutex(action, potential_action)
                   THEN adding_precondition_mutex_actions(conv, action,
                                                          potential_action)
                   ELSE conv
         IN  IF check_soft_mutex(action, potential_action)
             THEN time_mutex(adding_precondition_soft_mutex_actions(
                                 c1, action, potential_action),
                             action, potential_action)
             ELSE c1

\* lines 156-167: the inner loop over the original actions
RECURSIVE mutex_inner(_, _, _, _)
mutex_inner(conv, actions, i, j) ==
    IF j > Len(actions) THEN conv
    ELSE mutex_inner(mutex_pair(conv, actions[i], actions[j]), actions, i, j + 1)

\* lines 151-167: the outer loop over the original actions
RECURSIVE mutex_outer(_, _, _)
mutex_outer(conv, actions, i) ==
    IF i > Len(actions) THEN conv
    ELSE IF isDurative(actions[i])
         THEN mutex_outer(mutex_inner(conv, actions, i, 1), actions, i + 1)
         ELSE mutex_outer(conv, actions, i + 1)

\* lines 136-168
mutex_actions(conv, actions) == mutex_outer(conv, actions, 1)

\* lines 11-24: the actions of the converted problem
Convert_problem(actions) ==
    mutex_actions(
        convert_model_engine_actions(split_durative_actions(actions)),
        actions)

----------------------------------------------------------------------------
(* MDP over the converted problem                                          *)

\* MDP.initial_state (lines 22-29): the fluents whose initial value is true;
\* inExecution has default initial value False (convert_problem.py line 52)
initial_state(initial_values) == initial_values

\* MDP.is_terminal (lines 31-39)
is_terminal(goal_set, s) == goal_set \subseteq s

\* legal_actions that does not test the negative preconditions
legal_actions_pos_only(actions, s) ==
    SelectSeq(actions, LAMBDA action : action.pos_preconditions \subseteq s)

\* MDP.legal_actions (lines 41-57)
legal_actions(actions, s) ==
    SelectSeq(actions, LAMBDA action :
        /\ action.pos_preconditions \subseteq s
        /\ action.neg_preconditions \cap s = {})

\* the action of the compiled problem that has the given name
ActionOf(name) == CHOOSE c \in Range(converted) : c.name = name

\* The value dictionaries one probabilistic effect can draw: an assignment
\* of values to some of its fluents (none when it has no outcome)
Values(fluents) ==
    {v \in SUBSET (fluents \X BOOLEAN) :
        \A p \in v, q \in v : p[1] = q[1] => p = q}

\* One drawn value dictionary per probabilistic effect of the action
Outcomes(pes) ==
    {o \in [1..Len(pes) -> SUBSET (Fluents \X BOOLEAN)] :
        \A k \in 1..Len(pes) : o[k] \in Values(pes[k])}

\* MDP._apply_probabilistic_effects (lines 85-105): <<add, del>> predicates
apply_probabilistic_effects(action, outs) ==
    <<UNION {{v[1] : v \in {x \in outs[k] : x[2]}} : k \in 1..Len(outs)},
      UNION {{v[1] : v \in {x \in outs[k] : ~x[2]}} : k \in 1..Len(outs)}>>

\* update_predicate that subtracts every delete after every add
update_predicate_deletes_last(new_preds, action, outs) ==
    LET pe == apply_probabilistic_effects(action, outs)
    IN  (new_preds \cup action.add_effects \cup pe[1])
            \ (action.del_effects \cup pe[2])

\* MDP.update_predicate (lines 59-67)
update_predicate(new_preds, action, outs) ==
    LET p1 == new_preds \cup action.add_effects
        p2 == p1 \ action.del_effects
        pe == apply_probabilistic_effects(action, outs)
        p3 == p2 \cup pe[1]
    IN  p3 \ pe[2]

\* step that tests the goals on the state it was given
step_terminal_of_input(goal_set, s, action, outs) ==
    LET next_state == update_predicate(s, action, outs)
        is_term    == is_terminal(goal_set, s)
    IN  <<is_term, next_state, IF is_term THEN 10 ELSE 0>>

\* MDP.step (lines 69-83): <<terminal, next_state, reward>>
step(goal_set, s, action, outs) ==
    LET next_state == update_predicate(s, action, outs)
        is_term    == is_terminal(goal_set, next_state)
    IN  <<is_term, next_state, IF is_term THEN 10 ELSE 0>>

----------------------------------------------------------------------------
(* The objects of a step                                                   *)

\* The sets and the queues a step works on are objects: a reference is an
\* index in the store of its kind, and two names bound to one reference see
\* each other's in-place updates. A State object is the record of the
\* references it holds; a plain State has no active_actions (0).
NoState == [predicates |-> 0, active_actions |-> 0]

\* no step has been made on objects
NoObjects ==
    [mdp |-> "", sets |-> <<>>, queues |-> <<>>,
     input |-> NoState, state |-> NoState]

\* a binding without a copy: the name refers to the object itself
copy_object_alias(store, ref) == <<store, ref>>

\* set(state.predicates) and state.active_actions.clone(): a new object
\* with the elements of the old one; gives the store and the new reference
copy_object(store, ref) == <<Append(store, store[ref]), Len(store) + 1>>

\* MDP.update_predicate on the object new_preds: |= and -= work in place
update_predicate_object(sets, new_preds, action, outs) ==
    [sets EXCEPT ![new_preds] = update_predicate(@, action, outs)]

\* MDP.step on objects: the stores after the call and what it returns
step_objects(goal_set, obj, action, outs) ==
    LET copied     == copy_object(obj.sets, obj.state.predicates)
        new_preds  == copied[2]
        sets       == update_predicate_object(copied[1], new_preds,
                                              action, outs)
        next_state == [predicates |-> new_preds, active_actions |-> 0]
        is_term    == is_terminal(goal_set, sets[new_preds])
    IN  [sets |-> sets, queues |-> obj.queues, terminal |-> is_term,
         next_state |-> next_state, reward |-> IF is_term THEN 10 ELSE 0]

\* the engine's DurativeAction of a durative action of the problem
EngineDurativeAction(a) ==
    [set_effects(EmptyAction(a.name, "DurativeAction"), a.effects)
        EXCEPT !.duration = a.duration]

\* the actions combinationMDP.step tells apart: instantaneous ones,
\* durative ones, the combination of the durative ones, and the no-op
CombinationActions(actions) ==
    {IF isDurative(a) THEN EngineDurativeAction(a) ELSE init_from_action(a) :
        a \in Range(actions)}
    \cup {EmptyAction("combination", "CombinationAction"),
          EmptyAction("noop", "NoOpAction")}

\* CombinationAction.actions
combination_members(actions) ==
    SelectSeq([i \in 1..Len(actions) |->
                  IF isDurative(actions[i])
                  THEN EngineDurativeAction(actions[i])
                  ELSE init_from_action(actions[i])],
              LAMBDA a : a.kind = "DurativeAction")

\* ActionQueue.add_action(QueueNode(action, duration)) for each action
RECURSIVE add_actions(_, _)
add_actions(queue, members) ==
    IF members = <<>> THEN queue
    ELSE add_actions(Append(queue, [action |-> Head(members),
                                    duration_left |-> Head(members).duration]),
                     Tail(members))

min_duration_left(queue) ==
    CHOOSE d \in {queue[i].duration_left : i \in 1..Len(queue)} :
        \A i \in 1..Len(queue) : d <= queue[i].duration_left

\* ActionQueue.get_next_actions: the shortest duration left and the actions
\* that have it, which leave the queue; -1 and no action on an empty queue
get_next_actions(queue) ==
    IF queue = <<>>
    THEN [delta |-> -1, actions_to_perform |-> <<>>, queue |-> queue]
    ELSE LET delta == min_duration_left(queue)
             due   == SelectSeq(queue, LAMBDA n : n.duration_left = delta)
         IN  [delta |-> delta,
              actions_to_perform |-> [i \in 1..Len(due) |-> due[i].action],
              queue |-> SelectSeq(queue,
                                  LAMBDA n : n.duration_left # delta)]

\* ActionQueue.update_delta
update_delta(queue, delta) ==
    [i \in 1..Len(queue) |->
        [queue[i] EXCEPT !.duration_left = @ - delta]]

\* the loop `for a in actions_to_perform` of combinationMDP.step
RECURSIVE perform(_, _, _)
perform(sets, new_preds, actions_to_perform) ==
    IF actions_to_perform = <<>> THEN sets
    ELSE perform(update_predicate_object(sets, new_preds,
                                         Head(actions_to_perform), <<>>),
                 new_preds, Tail(actions_to_perform))

\* combinationMDP.step on objects: the stores after the call and what it
\* returns
combination_step_objects(goal_set, actions, obj, action, outs) ==
    LET copied  == copy_object(obj.sets, obj.state.predicates)
        cloned  == copy_object(obj.queues, obj.state.active_actions)
        new_preds          == copied[2]
        new_active_actions == cloned[2]
        members ==
            IF action.kind = "DurativeAction" THEN <<action>>
            ELSE IF action.kind = "CombinationAction"
                 THEN combination_members(actions)
                 ELSE <<>>
        in_execution ==
            {inExecution(object_start(members[i].name)) :
                i \in 1..Len(members)}
        added   == add_actions(cloned[1][new_active_actions], members)
        next    == get_next_actions(added)
        sets ==
            IF action.kind = "InstantaneousAction"
            THEN update_predicate_object(copied[1], new_preds, action, outs)
            ELSE perform([copied[1] EXCEPT ![new_preds] = @ \cup in_execution],
                         new_preds, next.actions_to_perform)
        queues ==
            IF action.kind = "InstantaneousAction"
            THEN cloned[1]
            ELSE [cloned[1] EXCEPT ![new_active_actions] =
                     IF next.delta # -1
                     THEN update_delta(next.queue, next.delta)
                     ELSE next.queue]
        next_state == [predicates |-> new_preds,
                       active_actions |-> new_active_actions]
        is_term == /\ is_terminal(goal_set, sets[new_preds])
                   /\ queues[new_active_actions] = <<>>
    IN  [sets |-> sets, queues |-> queues, terminal |-> is_term,
         next_state |-> next_state, reward |-> IF is_term THEN 10 ELSE 0]

----------------------------------------------------------------------------
(* The problems considered                                                 *)

\* Sets of preconditions or effects that give a fluent at most one value
Assignments == Values(Fluents)

\* No probabilistic effect, or one over a non-empty set of fluents
ProbabilisticEffects == {<<>>} \cup {<<fl>> : fl \in (SUBSET Fluents) \ {{}}}

DurativeActions(name) ==
    [name : {name}, kind : {"DurativeAction"}, duration : Durations,
     pre : {{}}, pre_START : {{}}, pre_OVERALL : Assignments, pre_END : {{}},
     start_effects : Assignments, effects : Assignments,
     probabilistic_effects : ProbabilisticEffects]

InstantaneousActions(name) ==
    [name : {name}, kind : {"model.InstantaneousAction"}, duration : {0},
     pre : Assignments, pre_START : {{}}, pre_OVERALL : {{}}, pre_END : {{}},
     start_effects : {{}}, effects : Assignments,
     probabilistic_effects : ProbabilisticEffects]

\* A durative action A and a second action B, durative or instantaneous
Problems ==
    {<<a, b>> : a \in DurativeActions("A"),
                b \in DurativeActions("B") \cup InstantaneousActions("B")}

\* The problems with a durative A and an instantaneous B
PlanProblems == {p \in Problems : ~isDurative(p[2])}

\* A durative action with preconditions under each of its three timing tags
TaggedActions(name) ==
    [name : {name}, kind : {"DurativeAction"}, duration : Durations,
     pre : {{}}, pre_START : Assignments, pre_OVERALL : Assignments,
     pre_END : Assignments, start_effects : Assignments,
     effects : Assignments, probabilistic_effects : {<<>>}]

\* A tagged durative A beside a B that is durative of the middle duration
\* or instantaneous
TagProblems ==
    {<<a, b>> : a \in TaggedActions("A"),
                b \in {d \in DurativeActions("B") :
                          d.duration = 2 /\ d.probabilistic_effects = <<>>}
                      \cup InstantaneousActions("B")}

\* The problems without any durative action
InstantaneousProblems ==
    {<<a, b>> : a \in InstantaneousActions("A"),
                b \in InstantaneousActions("B")}

CompileProblems == TagProblems \cup InstantaneousProblems

\* The goals of a problem: a non-empty set of fluents
GoalSets == (SUBSET Fluents) \ {{}}

----------------------------------------------------------------------------
(* The search tree: node.py and MCTS of solvers/mcts.py                    *)
(*                                                                         *)
(* An SNode is named by its path from the root, the sequence of the        *)
(* <<action name, successor state>> pairs that lead to it; tree maps each  *)
(* path to the SNode's fields, and the children field maps the name of an  *)
(* action to the fields of its ANode, whose own children field holds the   *)
(* states that key its SNodes. Values are sums of integer rewards: the     *)
(* discount factor is taken as 1.                                          *)

\* The search iterations one search may run before its timeout
MaxIter == 4

\* search_depth of the search
SearchDepth == 1

\* The calls of SNode.remove_action made on the tree
MaxRemoved == 1

\* The values TRPG(...).get_heuristic() may return
HeuristicValues == {-1, 0}

\* no MCTS has been constructed
NoTree == <<>>

RECURSIVE Sum(_, _)
Sum(f, S) ==
    IF S = {} THEN 0
    ELSE LET x == CHOOSE y \in S : TRUE IN f[x] + Sum(f, S \ {x})

\* Node.__init__ (lines 5-8) and ANode.__init__ (lines 72-78)
ANode == [count |-> 1, value |-> 0, children |-> {}]

\* SNode._add_children that stops after the first action
add_children_first_only(possible_actions) ==
    [action \in {possible_actions[i] :
                    i \in 1..(IF Len(possible_actions) > 0 THEN 1 ELSE 0)}
        |-> ANode]

\* SNode._add_children (lines 65-68)
add_children(possible_actions) ==
    [action \in Range(possible_actions) |-> ANode]

\* Node.__init__ (lines 5-8) and SNode.__init__ (lines 26-35)
SNode(s, depth, possible_actions) ==
    [state |-> s, depth |-> depth, count |-> 1, value |-> 0,
     possible_actions |-> possible_actions,
     children |-> add_children(possible_actions)]

\* MCTS.create_Snode (lines 121-124); actions are kept by name
\* a create_Snode that gives the new SNode the depth of the SNode above it
create_Snode_same_depth(s, depth) ==
    LET legal == legal_actions(converted, s) IN
    SNode(s, IF depth > 0 THEN depth - 1 ELSE 0,
          [i \in 1..Len(legal) |-> legal[i].name])

create_Snode(s, depth) ==
    LET legal == legal_actions(converted, s) IN
    SNode(s, depth, [i \in 1..Len(legal) |-> legal[i].name])

\* Node.update that leaves the count as it is
update_keeps_count(node, r) == [node EXCEPT !.value = @ + r]

\* Node.update (lines 22-24)
update(node, r) == [node EXCEPT !.value = @ + r, !.count = @ + 1]

\* SNode.remove_action (lines 61-63)
remove_action(snode, action) ==
    [snode EXCEPT !.possible_actions = SelectSeq(@, LAMBDA x : x # action)]

\* ANode.add_child (lines 96-97) of the ANode of action under the SNode
\* at path, with the new SNode placed in the tree
add_child(t, path, action, child_node) ==
    LET child_path == Append(path, <<action, child_node.state>>) IN
    [q \in DOMAIN t \cup {child_path} |->
        IF q = child_path THEN child_node
        ELSE IF q = path
             THEN [t[q] EXCEPT !.children[action].children =
                                    @ \cup {child_node.state}]
             ELSE t[q]]

\* exploration_constant of Base_MCTS.__init__ (lines 13-17)
exploration_constant == 1

\* The unit of the fixed-point numbers that stand for the floats of uct
Scale == 10000

\* math.log(n) in units of 1/Scale, rounded down, for n = 1, 2, ...
LogTable ==
    <<0, 6931, 10986, 13862, 16094, 17917, 19459, 20794, 21972, 23025,
      23978, 24849>>

math_log(n) == LogTable[n]

\* the greatest r in lo..hi with r * r <= x
RECURSIVE sqrt_search(_, _, _)
sqrt_search(x, lo, hi) ==
    IF lo = hi THEN lo
    ELSE LET mid == (lo + hi + 1) \div 2 IN
         IF mid * mid <= x THEN sqrt_search(x, mid, hi)
         ELSE sqrt_search(x, lo, mid - 1)

\* math.sqrt(x) for x in units of 1/Scale, in units of 1/Scale
math_sqrt(x) == sqrt_search(x * Scale, 0, 2 * Scale)

\* lines 56-57: ub, in units of 1/Scale
upper_bound(snode, action) ==
    LET anode == snode.children[action] IN
    (anode.value * Scale) \div anode.count
        + exploration_constant
            * math_sqrt(math_log(snode.count) \div anode.count)

\* The distance under which two fixed-point bounds do not tell which of
\* the two floats is the greater
Tolerance == 10

\* the outcomes `ub > best_ub` (line 58) may have when ub is the bound of
\* action and best_ub that of best: with equal counts, or a zero
\* exploration term, the greater average; otherwise the greater bound,
\* either outcome when the two bounds are too close to tell
ub_greater(snode, action, best) ==
    LET a == snode.children[action]
        b == snode.children[best]
    IN  IF a.count = b.count THEN {a.value > b.value}
        ELSE IF snode.count = 1 \/ exploration_constant = 0
        THEN {a.value * b.count > b.value * a.count}
        ELSE LET d == upper_bound(snode, action) - upper_bound(snode, best)
             IN  IF d > Tolerance * exploration_constant THEN {TRUE}
                 ELSE IF d < -(Tolerance * exploration_constant)
                 THEN {FALSE}
                 ELSE BOOLEAN

\* lines 53-60: the loop of uct from the i-th possible action on, best
\* being the index of best_action and 0 while best_ub is -inf
RECURSIVE uct_loop(_, _, _)
uct_loop(snode, i, best) ==
    LET possible_actions == snode.possible_actions IN
    IF i > Len(possible_actions) THEN {possible_actions[best]}
    ELSE IF snode.children[possible_actions[i]].count = 0
    THEN {possible_actions[i]}
    ELSE IF best = 0 THEN uct_loop(snode, i + 1, i)
    ELSE UNION {IF greater THEN uct_loop(snode, i + 1, i)
                ELSE uct_loop(snode, i + 1, best) :
                    greater \in ub_greater(snode, possible_actions[i],
                                           possible_actions[best])}

\* Base_MCTS.uct (lines 47-63) on an SNode that has possible actions: the
\* actions it may return, one unless two bounds are too close to tell
uct(snode) == uct_loop(snode, 1, 0)

\* the two updates that end MCTS.selection, on the SNode only
backup_snode_only(t, path, action, r) ==
    [t EXCEPT ![path] = update(@, r)]

\* the two updates that end MCTS.selection, on the ANode only
backup_anode_only(t, path, action, r) ==
    [t EXCEPT ![path].children[action] = update(@, r)]

\* snode.update(reward); anode.update(reward) (lines 174-175)
backup(t, path, action, r) ==
    [t EXCEPT ![path] =
        [update(@, r) EXCEPT !.children[action] = update(@, r)]]

\* MCTS.selection (lines 150-177) on the SNode at path: the set of
\* <<tree, returned reward>> pairs it may end with. The clock of the
\* states is 0 and never above the deadline.
RECURSIVE selection(_, _)
selection(t, path) ==
    LET snode == t[path] IN
    IF Len(snode.possible_actions) = 0 THEN {<<t, -100>>}
    ELSE IF snode.depth > SearchDepth
    THEN {<<t, h>> : h \in HeuristicValues}
    ELSE UNION {UNION {
        LET result     == step(goals, snode.state, ActionOf(name), outs)
            next_state == result[2]
            child_path == Append(path, <<name, next_state>>)
        IN  IF result[1]
            THEN {<<backup(t, path, name, result[3]), result[3]>>}
            ELSE IF next_state \in snode.children[name].children
            THEN {<<backup(sub[1], path, name, result[3] + sub[2]),
                    result[3] + sub[2]>> :
                        sub \in selection(t, child_path)}
            ELSE {<<backup(add_child(t, path, name,
                               create_Snode(next_state, snode.depth + 1)),
                           path, name, result[3] + h),
                    result[3] + h>> : h \in HeuristicValues}
        : outs \in Outcomes(ActionOf(name).probabilistic_effects)}
        : name \in uct(snode)}

\* lines 74-77: the loop of best_action from the i-th possible action on;
\* aStar is the sentinel -1, written "-1", while aStart_value is -inf
RECURSIVE best_action_loop(_, _, _)
best_action_loop(root_node, i, aStar) ==
    LET possible_actions == root_node.possible_actions
        anodes == root_node.children
    IN  IF i > Len(possible_actions) THEN aStar
        ELSE IF aStar = "-1"
                \/ anodes[possible_actions[i]].value > anodes[aStar].value
        THEN best_action_loop(root_node, i + 1, possible_actions[i])
        ELSE best_action_loop(root_node, i + 1, aStar)

\* best_action that looks at every ANode of the root
best_action_of_children(root_node) ==
    LET anodes == root_node.children IN
    IF DOMAIN anodes = {} THEN "-1"
    ELSE CHOOSE a \in DOMAIN anodes :
            \A b \in DOMAIN anodes : anodes[b].value <= anodes[a].value

\* best_action whose loop takes an action of equal value as well
RECURSIVE best_action_last_greatest(_)
best_action_last_greatest(root_node) ==
    LET possible_actions == root_node.possible_actions
        n == Len(possible_actions)
    IN  IF n = 0 THEN "-1"
        ELSE LET rest == best_action_last_greatest(
                            [root_node EXCEPT !.possible_actions = Tail(@)])
             IN  IF rest = "-1"
                    \/ root_node.children[possible_actions[1]].value
                          > root_node.children[rest].value
                 THEN possible_actions[1] ELSE rest

\* Base_MCTS.best_action (lines 65-83): the sentinel when the root has no
\* possible action
best_action(root_node) == best_action_loop(root_node, 1, "-1")

----------------------------------------------------------------------------
(* The planner drivers: plan and combination_plan of solvers/mcts.py       *)
(*                                                                         *)
(* The STN is the one of spec section 4.3 for a plan in which at most one  *)
(* durative action is in execution: every committed node lies at or after  *)
(* the previous one, an end node lies its action's duration after the      *)
(* start node, and no edge joins a node of an action to the horizon. Its   *)
(* earliest schedule is then kept as the time of the latest committed node *)
(* and the times of the start nodes waiting for their end.                 *)

\* The deadlines of the problems planned range over 0..MaxDeadline
MaxDeadline == 2

\* The values the ANodes of the root may have when the search times out
RootValues == {0, 10}

\* no driver has been called
NoDriver ==
    [entry |-> "", pc |-> "idle", deadline |-> 0, action |-> "",
     children |-> {}, root_node |-> {},
     stn |-> [time |-> 0, started |-> {}],
     result |-> [status |-> "none", makespan |-> 0]]

\* plan line 389
reuse == FALSE

\* utils.create_init_stn: the origin at time 0
create_init_stn == [time |-> 0, started |-> {}]

\* STN.get_current_end_time: the latest committed node of the earliest
\* schedule
get_current_end_time(stn) == stn.time

\* utils.update_stn: the node of the action is appended after the previous
\* node; the node of an end action lies the duration after its start node
update_stn(stn, action) ==
    IF action.kind = "InstantaneousStartAction"
    THEN [stn EXCEPT !.started = @ \cup {<<action.name, stn.time>>}]
    ELSE IF action.kind = "InstantaneousEndAction"
    THEN LET start == CHOOSE n \in stn.started : n[1] = action.start IN
         [stn EXCEPT
            !.time = start[2] + ActionOf(action.start).duration,
            !.started = @ \ {start}]
    ELSE stn

\* the states a step of the action from state s may lead to without
\* reaching the goals: the SNodes the search may put under its ANode
\* (lines 295-303)
successors(s, action) ==
    {result[2] : result \in
        {r \in {step(goals, s, ActionOf(action), outs) :
                    outs \in Outcomes(ActionOf(action).probabilistic_effects)} :
            ~r[1]}}

\* a search that starts every time at the initial state of the problem
searched_from_initial(root_state) ==
    LET root_node == create_Snode(initial_state(initial), 0) IN
    {[root_node EXCEPT !.children =
        [action \in DOMAIN root_node.children |->
            [root_node.children[action] EXCEPT !.value = values[action]]]] :
        values \in [DOMAIN root_node.children -> RootValues]}

\* The root of a search after its timeout: the ANodes of the possible
\* actions hold the values the search iterations have summed. With one
\* durative action the STN extended by any legal action is consistent, so
\* the possible actions of the root are the legal ones. The root is a new
\* SNode (lines 238-240 and 116-117 with root_node None), or the SNode kept
\* from the search before, which has the same state and possible actions.
searched(root_state) ==
    LET root_node == create_Snode(root_state, 0) IN
    {[root_node EXCEPT !.children =
        [action \in DOMAIN root_node.children |->
            [root_node.children[action] EXCEPT !.value = values[action]]]] :
        values \in [DOMAIN root_node.children -> RootValues]}

----------------------------------------------------------------------------
(* The pseudo-random generators: `random` of Python, which mcts.py seeds,   *)
(* and the global generator of numpy, which mdp.py draws from and nothing   *)
(* seeds. A generator is a seed and the number of draws made; what it      *)
(* draws is a function of the two.                                         *)

\* random.seed(10)
Seed == 10

\* The states the operating system's entropy may give an unseeded generator
Entropy == {0, 1}

\* The calls made on each run
MaxCalls == 2

\* no run has been started
NoRuns == <<>>

\* the elements of a set in an order
RECURSIVE Enumerate(_)
Enumerate(S) ==
    IF S = {} THEN <<>>
    ELSE LET x == CHOOSE y \in S : TRUE IN <<x>> \o Enumerate(S \ {x})

\* the index, from 0, a generator draws among n
draw(generator, n) == (generator.seed + generator.draws) % n

advance(generator) == [generator EXCEPT !.draws = @ + 1]

\* MDP._apply_probabilistic_effects (lines 89-98): for each probabilistic
\* effect, in order, np.random.choice draws one of its value dictionaries;
\* <<the dictionaries drawn, the generator afterwards>>
RECURSIVE sample(_, _, _)
sample(pes, k, generator) ==
    IF k > Len(pes) THEN <<<<>>, generator>>
    ELSE LET values == Enumerate(Values(pes[k]))
             index  == draw(generator, Len(values))
             rest   == sample(pes, k + 1, advance(generator))
         IN  <<<<values[index + 1]>> \o rest[1], rest[2]>>

\* Base_MCTS.default_policy (lines 43-45): random.choice among the legal
\* actions; <<the name of the action, the generator afterwards>>
default_policy(s, generator) ==
    LET legal == legal_actions(converted, s) IN
    <<legal[draw(generator, Len(legal)) + 1].name, advance(generator)>>

----------------------------------------------------------------------------
(* The state machine                                                       *)

Init ==
    /\ original \in Problems
    /\ converted = Convert_problem(original)
    /\ initial \in SUBSET Fluents
    /\ goals \in GoalSets
    /\ state = initial_state(initial)
    /\ last = ""
    /\ terminal = FALSE
    /\ reward = 0
    /\ tree = NoTree
    /\ driver = NoDriver
    /\ runs = NoRuns
    /\ objects = NoObjects

\* One MDP.step with a legal action of the current state
Step ==
    \E i \in 1..Len(converted) :
        LET action == converted[i] IN
        /\ action \in Range(legal_actions(converted, state))
        /\ \E outs \in Outcomes(action.probabilistic_effects) :
              LET result == step(goals, state, action, outs) IN
              /\ terminal' = result[1]
              /\ state' = result[2]
              /\ reward' = result[3]
        /\ last' = action.name
        /\ UNCHANGED <<original, converted, initial, goals, tree, driver, runs,
                       objects>>

Next == Step

Spec == Init /\ [][Next]_vars

\* One MDP.step with any action of the problem: step itself (lines 69-83)
\* looks at no precondition, so a caller may hand it any action
StepAny ==
    \E i \in 1..Len(converted) :
        LET action == converted[i] IN
        /\ \E outs \in Outcomes(action.probabilistic_effects) :
              LET result == step(goals, state, action, outs) IN
              /\ terminal' = result[1]
              /\ state' = result[2]
              /\ reward' = result[3]
        /\ last' = action.name
        /\ UNCHANGED <<original, converted, initial, goals, tree, driver, runs,
                       objects>>

\* The MDP of a durative A and an instantaneous B in its initial state
InitStep ==
    /\ original \in PlanProblems
    /\ converted = Convert_problem(original)
    /\ initial \in SUBSET Fluents
    /\ goals \in GoalSets
    /\ state = initial_state(initial)
    /\ last = ""
    /\ terminal = FALSE
    /\ reward = 0
    /\ tree = NoTree
    /\ driver = NoDriver
    /\ runs = NoRuns
    /\ objects = NoObjects

SpecStep == InitStep /\ [][StepAny]_vars

\* The objects of at most MaxObjects states are followed
MaxObjects == 4

\* Two durative actions A and C without probabilistic effects, and an
\* instantaneous action B
ObjectProblems ==
    {<<a, c, b>> :
        a \in {x \in DurativeActions("A") :
                  /\ x.pre_OVERALL = {} /\ x.start_effects = {}
                  /\ x.probabilistic_effects = <<>>},
        c \in {x \in DurativeActions("C") :
                  /\ x.pre_OVERALL = {} /\ x.start_effects = {}
                  /\ x.effects = {<<"f", FALSE>>} /\ x.duration = 2
                  /\ x.probabilistic_effects = <<>>},
        b \in {x \in InstantaneousActions("B") : x.pre = {}}}

\* The initial State of an MDP, or the initial CombinationState of a
\* combinationMDP with an empty queue, as objects
InitObjects ==
    /\ original \in ObjectProblems
    /\ converted = Convert_problem(original)
    /\ initial \in SUBSET Fluents
    /\ goals \in GoalSets
    /\ state = initial_state(initial)
    /\ last = ""
    /\ terminal = FALSE
    /\ reward = 0
    /\ tree = NoTree
    /\ driver = NoDriver
    /\ runs = NoRuns
    /\ \E mdp \in {"MDP", "combinationMDP"} :
          objects =
              [mdp |-> mdp, sets |-> <<state>>,
               queues |-> IF mdp = "MDP" THEN <<>> ELSE << <<>> >>,
               input |-> NoState,
               state |-> [predicates |-> 1,
                          active_actions |-> IF mdp = "MDP" THEN 0 ELSE 1]]

\* the caller keeps the State it handed to step and goes on from the State
\* step returned
Returned(action, result) ==
    /\ terminal' = result.terminal
    /\ state' = result.sets[result.next_state.predicates]
    /\ reward' = result.reward
    /\ last' = action.name
    /\ objects' = [objects EXCEPT !.sets = result.sets,
                                  !.queues = result.queues,
                                  !.input = objects.state,
                                  !.state = result.next_state]
    /\ UNCHANGED <<original, converted, initial, goals, tree, driver, runs>>

\* One MDP.step with any action of the compiled problem
StepObjects ==
    /\ objects.mdp = "MDP"
    /\ Len(objects.sets) < MaxObjects
    /\ \E action \in Range(converted) :
          \E outs \in Outcomes(action.probabilistic_effects) :
             Returned(action, step_objects(goals, objects, action, outs))

\* One combinationMDP.step with any action of the problem
CombinationStepObjects ==
    /\ objects.mdp = "combinationMDP"
    /\ Len(objects.sets) < MaxObjects
    /\ \E action \in CombinationActions(original) :
          \E outs \in Outcomes(action.probabilistic_effects) :
             Returned(action,
                      combination_step_objects(goals, original, objects,
                                               action, outs))

NextObjects == StepObjects \/ CombinationStepObjects

SpecObjects == InitObjects /\ [][NextObjects]_vars

\* The compiled problem of a tagged or an all-instantaneous input, in the
\* initial state of its MDP
InitCompile ==
    /\ original \in CompileProblems
    /\ converted = Convert_problem(original)
    /\ initial = {}
    /\ goals \in GoalSets
    /\ state = initial_state(initial)
    /\ last = ""
    /\ terminal = FALSE
    /\ reward = 0
    /\ tree = NoTree
    /\ driver = NoDriver
    /\ runs = NoRuns
    /\ objects = NoObjects

SpecCompile == InitCompile /\ [][Step]_vars

----------------------------------------------------------------------------
(* The search of MCTS in its average-backup mode                           *)

\* The problems searched: A of duration 1 without OVERALL precondition or
\* start effect, and an instantaneous B without probabilistic effect
TreeProblems ==
    {p \in Problems :
        /\ p[1].duration = 1
        /\ p[1].pre_OVERALL = {}
        /\ p[1].start_effects = {}
        /\ ~isDurative(p[2])
        /\ p[2].probabilistic_effects = <<>>}

\* MCTS.__init__ (lines 110-120) on the initial state of the problem
InitTree ==
    /\ original \in TreeProblems
    /\ converted = Convert_problem(original)
    /\ initial \in SUBSET Fluents
    /\ goals \in GoalSets
    /\ state = initial_state(initial)
    /\ last = ""
    /\ terminal = FALSE
    /\ reward = 0
    /\ tree = [path \in {<<>>} |-> create_Snode(state, 0)]
    /\ driver = NoDriver
    /\ runs = NoRuns
    /\ objects = NoObjects

\* One pass of the loop of Base_MCTS.search (lines 93-96)
SearchIteration ==
    /\ tree[<<>>].count <= MaxIter
    /\ \E result \in selection(tree, <<>>) : tree' = result[1]
    /\ UNCHANGED <<original, converted, initial, goals, state, last,
                   terminal, reward, driver, runs, objects>>

\* the number of actions removed from the SNodes of the tree
Removed ==
    Sum([path \in DOMAIN tree |->
            Cardinality(DOMAIN tree[path].children)
                - Len(tree[path].possible_actions)], DOMAIN tree)

\* SNode.remove_action on an SNode of the tree
RemoveAction ==
    /\ Removed < MaxRemoved
    /\ \E path \in DOMAIN tree :
          \E action \in Range(tree[path].possible_actions) :
              tree' = [tree EXCEPT ![path] = remove_action(@, action)]
    /\ UNCHANGED <<original, converted, initial, goals, state, last,
                   terminal, reward, driver, runs, objects>>

NextTree == SearchIteration \/ RemoveAction

SpecTree == InitTree /\ [][NextTree]_vars

----------------------------------------------------------------------------
(* plan on a compiled problem, combination_plan on instantaneous actions   *)

\* The problems combination_plan is given: one instantaneous action
CombinationProblems == {<<b>> : b \in InstantaneousActions("B")}

\* plan lines 386-393, combination_plan lines 433-436
InitPlan ==
    /\ \E entry \in {"plan", "combination_plan"}, deadline \in 0..MaxDeadline :
          /\ original \in (IF entry = "plan" THEN PlanProblems
                           ELSE CombinationProblems)
          /\ driver = [NoDriver EXCEPT !.entry = entry, !.pc = "while",
                                       !.deadline = deadline,
                                       !.stn = create_init_stn]
    /\ converted = Convert_problem(original)
    /\ initial \in SUBSET Fluents
    /\ goals \in GoalSets
    /\ state = initial_state(initial)
    /\ last = ""
    /\ terminal = FALSE
    /\ reward = 0
    /\ tree = NoTree
    /\ runs = NoRuns
    /\ objects = NoObjects

Return(status, makespan) ==
    driver' = [driver EXCEPT !.pc = "done",
                             !.result = [status |-> status,
                                         makespan |-> makespan]]

\* plan lines 395-398 and combination_plan lines 438-442: the test of the
\* while loop, and the search from the root state when it passes. The clock
\* of a state of instantaneous actions is 0. Of the tree the driver reads
\* the action returned and, at line 409, the SNodes under the root's ANode
\* of that action: states the steps of the search have led to.
WhileSearch ==
    /\ driver.pc = "while"
    /\ LET clock == IF driver.entry = "plan"
                    THEN get_current_end_time(driver.stn) ELSE 0
       IN  IF clock <= driver.deadline
           THEN \E root_node \in searched(state) :
                   LET action == best_action(root_node) IN
                   \E children \in (IF action = "-1" THEN {{}}
                                    ELSE SUBSET successors(state, action)) :
                       driver' = [driver EXCEPT !.pc = "searched",
                                                !.action = action,
                                                !.children = children]
           ELSE Return("failure", 0)
    /\ UNCHANGED <<original, converted, initial, goals, state, last,
                   terminal, reward, tree, runs, objects>>

\* plan lines 400-402: the sentinel ends the plan
PlanNoAction ==
    /\ driver.pc = "searched"
    /\ driver.entry = "plan"
    /\ driver.action = "-1"
    /\ Return("failure", 0)
    /\ UNCHANGED <<original, converted, initial, goals, state, last,
                   terminal, reward, tree, runs, objects>>

\* combination_plan line 445: action.name of the sentinel, an integer,
\* raises AttributeError
CombinationNoAction ==
    /\ driver.pc = "searched"
    /\ driver.entry = "combination_plan"
    /\ driver.action = "-1"
    /\ Return("raised", 0)
    /\ UNCHANGED <<original, converted, initial, goals, state, last,
                   terminal, reward, tree, runs, objects>>

\* plan lines 404-425 and combination_plan lines 444-457: the chosen action
\* is stepped and, in plan, appended to the STN; a terminal successor ends
\* the plan with success. In plan, root_node becomes the SNode of the
\* successor under the ANode of the action, named by its path from the
\* root, when reuse is set and there is one (lines 409-411); nothing else
\* of the tree of the search is read again.
Commit ==
    /\ driver.pc = "searched"
    /\ driver.action # "-1"
    /\ LET action == ActionOf(driver.action) IN
       \E outs \in Outcomes(action.probabilistic_effects) :
          LET result == step(goals, state, action, outs)
              stn    == IF driver.entry = "plan"
                        THEN update_stn(driver.stn, action) ELSE driver.stn
          IN  /\ terminal' = result[1]
              /\ state' = result[2]
              /\ reward' = result[3]
              /\ last' = action.name
              /\ driver' =
                    [driver EXCEPT
                        !.stn = stn,
                        !.root_node =
                            IF driver.entry = "plan" /\ reuse
                               /\ result[2] \in driver.children
                            THEN {<<<<action.name, result[2]>>>>}
                            ELSE @,
                        !.children = {},
                        !.pc = IF result[1] THEN "done" ELSE "while",
                        !.result =
                            IF result[1]
                            THEN [status |-> "success",
                                  makespan |-> get_current_end_time(stn)]
                            ELSE @]
    /\ UNCHANGED <<original, converted, initial, goals, tree, runs, objects>>

NextPlan == WhileSearch \/ PlanNoAction \/ CombinationNoAction \/ Commit

SpecPlan == InitPlan /\ [][NextPlan]_vars

\* every search returns and every step of the drivers is taken
FairPlan == SpecPlan /\ WF_vars(NextPlan)

----------------------------------------------------------------------------
(* The search a driver starts: C_MCTS for plan, MCTS for combination_plan  *)

\* the STN of the ANode that leads to the SNode at path: the STN of the
\* search extended by the actions of the path (C_ANode, spec section 4.4)
RECURSIVE stn_at(_)
stn_at(path) ==
    IF path = <<>> THEN driver.stn
    ELSE update_stn(stn_at(SubSeq(path, 1, Len(path) - 1)),
                    ActionOf(path[Len(path)][1]))

\* the clock of the SNode at path: the current end time of its STN in
\* C_MCTS, and in MCTS the current_time of its state, which is 0 for a
\* state that instantaneous actions have led to
Clock(path) ==
    IF driver.entry = "plan" THEN get_current_end_time(stn_at(path)) ELSE 0

\* plan lines 386-397 and combination_plan lines 433-441, up to the
\* construction of the first search
InitSearch ==
    /\ \E entry \in {"plan", "combination_plan"}, deadline \in 0..MaxDeadline :
          /\ original \in (IF entry = "plan" THEN TreeProblems
                           ELSE CombinationProblems)
          /\ driver = [NoDriver EXCEPT !.entry = entry, !.pc = "while",
                                       !.deadline = deadline,
                                       !.stn = create_init_stn]
    /\ converted = Convert_problem(original)
    /\ initial \in SUBSET Fluents
    /\ goals \in GoalSets
    /\ state = initial_state(initial)
    /\ last = ""
    /\ terminal = FALSE
    /\ reward = 0
    /\ tree = [path \in {<<>>} |-> create_Snode(state, 0)]
    /\ runs = NoRuns
    /\ objects = NoObjects

SpecSearch == InitSearch /\ [][SearchIteration]_vars

----------------------------------------------------------------------------
(* Two runs of the program that are given the same calls                   *)

\* Both runs start in the initial state; `random` is seeded on import
\* (line 10) and numpy's generator starts from the entropy of each run
InitRuns ==
    /\ original \in TreeProblems
    /\ converted = Convert_problem(original)
    /\ initial \in SUBSET Fluents
    /\ goals \in GoalSets
    /\ state = initial_state(initial)
    /\ last = ""
    /\ terminal = FALSE
    /\ reward = 0
    /\ tree = NoTree
    /\ driver = NoDriver
    /\ objects = NoObjects
    /\ \E entropy \in [1..2 -> Entropy] :
          runs = [r \in 1..2 |->
                    [state |-> initial_state(initial), action |-> "",
                     random |-> [seed |-> Seed, draws |-> 0],
                     numpy |-> [seed |-> entropy[r], draws |-> 0]]]

Calls(run) == run.random.draws + run.numpy.draws

\* MDP.step with the same action in both runs
CallStep ==
    /\ \A r \in 1..2 : Calls(runs[r]) < MaxCalls
    /\ \E action \in Range(legal_actions(converted, runs[1].state)) :
          runs' = [r \in 1..2 |->
              LET drawn  == sample(action.probabilistic_effects, 1,
                                   runs[r].numpy)
                  result == step(goals, runs[r].state, action, drawn[1])
              IN  [runs[r] EXCEPT !.state = result[2],
                                  !.action = action.name,
                                  !.numpy = drawn[2]]]
    /\ UNCHANGED <<original, converted, initial, goals, state, last,
                   terminal, reward, tree, driver, objects>>

\* Base_MCTS.default_policy in both runs
CallDefaultPolicy ==
    /\ \A r \in 1..2 :
          /\ Calls(runs[r]) < MaxCalls
          /\ Len(legal_actions(converted, runs[r].state)) > 0
    /\ runs' = [r \in 1..2 |->
          LET chosen == default_policy(runs[r].state, runs[r].random)
          IN  [runs[r] EXCEPT !.action = chosen[1], !.random = chosen[2]]]
    /\ UNCHANGED <<original, converted, initial, goals, state, last,
                   terminal, reward, tree, driver, objects>>

NextRuns == CallStep \/ CallDefaultPolicy

SpecRuns == InitRuns /\ [][NextRuns]_vars

----------------------------------------------------------------------------
(* Vocabulary of the properties, stated on the original problem            *)

DurativeOriginals == {a \in Range(original) : isDurative(a)}

\* The compiled actions of a given name
Compiled(name) == {c \in Range(converted) : c.name = name}

InFlight(a) == inExecution(object_start(a.name)) \in state

Holds(p, s) == (p[1] \in s) = p[2]

Opposite(p) == <<p[1], ~p[2]>>

\* fluents a durative action may set to value v at its end: effects and
\* the fluents of its probabilistic effects
EndAssigns(a, v) ==
    {e[1] : e \in {x \in a.effects : x[2] = v}}
        \cup pe_fluents(a.probabilistic_effects)

\* fluents an action may set to value v when it starts
StartAssigns(a, v) ==
    IF isDurative(a) THEN {e[1] : e \in {x \in a.start_effects : x[2] = v}}
    ELSE EndAssigns(a, v)

\* fluents a durative action may set to value v at its start or its end
Assigns(a, v) == StartAssigns(a, v) \cup EndAssigns(a, v)

\* one action may set true a fluent the other may set false
ConflictingOutcomes(a, b) ==
    \/ Assigns(a, TRUE) \cap Assigns(b, FALSE) # {}
    \/ Assigns(a, FALSE) \cap Assigns(b, TRUE) # {}

\* b's start phase assigns the opposite of an OVERALL precondition of a
StartClobbers(a, b) ==
    \E p \in a.pre_OVERALL : p[1] \in StartAssigns(b, ~p[2])

\* b's end phase assigns the opposite of an OVERALL precondition of a
EndClobbers(a, b) ==
    /\ isDurative(b)
    /\ \E p \in a.pre_OVERALL : p[1] \in EndAssigns(b, ~p[2])

\* the compiled action that begins b: start_b, or b itself when instantaneous
Beginning(b) ==
    IF isDurative(b) THEN Compiled(start_name(b.name)) ELSE Compiled(b.name)

\* c is legal in the current state but for the negative precondition on fl
BlockedOnlyBy(c, fl) ==
    /\ fl \in c.neg_preconditions
    /\ fl \in state
    /\ c.pos_preconditions \subseteq state
    /\ (c.neg_preconditions \ {fl}) \cap state = {}

IsLegal(c) == c \in Range(legal_actions(converted, state))

----------------------------------------------------------------------------
OwnStartConsistent(a) ==
    \A p \in a.pre_OVERALL : Opposite(p) \notin a.start_effects

(* C1: while a durative action A whose start effects do not contradict its *)
(* OVERALL preconditions is in execution, every OVERALL precondition of A  *)
(* holds in the state.                                                     *)

C1_OverallHoldsInFlight ==
    \A a \in DurativeOriginals :
        (OwnStartConsistent(a) /\ InFlight(a)) =>
            \A p \in a.pre_OVERALL : Holds(p, state)

\* A is in execution with an OVERALL precondition, and a second durative
\* action whose end would clobber it has been started after A
C1_Witness ==
    \E a \in DurativeOriginals, b \in DurativeOriginals :
        /\ a # b /\ a.pre_OVERALL # {} /\ OwnStartConsistent(a)
        /\ InFlight(a) /\ InFlight(b)
        /\ EndClobbers(a, b)
        /\ last = start_name(b.name)

----------------------------------------------------------------------------
StartEndStep(a) ==
    LET ie == inExecution(object_start(a.name)) IN
    /\ last' = start_name(a.name) => (ie \notin state /\ ie \in state')
    /\ last' = end_name(a.name) => (ie \in state /\ ie \notin state')
    /\ last' \notin {start_name(a.name), end_name(a.name)} =>
            ((ie \in state) = (ie \in state'))

(* C2: for every durative action A, inExecution(start-A) is false in the   *)
(* initial state, a step of start_A is taken only when it is false and     *)
(* makes it true, a step of end_A is taken only when it is true and makes  *)
(* it false, and a step of any other action leaves it unchanged; so        *)
(* start_A and end_A strictly alternate, start_A first.                    *)

C2_StartEndAlternate ==
    /\ \A a \in DurativeOriginals : ~InFlight(a)
    /\ [][\A a \in DurativeOriginals : StartEndStep(a)]_vars

\* A has been started and ended, and is not in execution again
C2_Witness ==
    \E a \in DurativeOriginals : last = end_name(a.name) /\ ~InFlight(a)

----------------------------------------------------------------------------
(* C3: for every durative action A of the original problem the converted   *)
(* action list holds start_A and end_A, start_A.end is end_A and           *)
(* end_A.start is start_A, and no DurativeAction is left in the list.      *)

C3_StartEndPaired ==
    /\ \A a \in DurativeOriginals :
          \E i \in 1..Len(converted), j \in 1..Len(converted) :
              /\ converted[i].name = start_name(a.name)
              /\ converted[i].kind = "InstantaneousStartAction"
              /\ converted[j].name = end_name(a.name)
              /\ converted[j].kind = "InstantaneousEndAction"
              /\ converted[i].end = converted[j].name
              /\ converted[j].start = converted[i].name
    /\ \A k \in 1..Len(converted) :
          /\ ~isDurative(converted[k])
          /\ converted[k] \notin Range(original)

\* a problem of two durative actions has been converted to four actions
C3_Witness ==
    /\ Cardinality(DurativeOriginals) = 2
    /\ Len(converted) = 4

----------------------------------------------------------------------------
(* C4: two distinct durative actions with conflicting outcomes block each  *)
(* other's start: start_A carries inExecution(start-B) = false, start_B    *)
(* carries inExecution(start-A) = false, and the two are never in          *)
(* execution together.                                                     *)

C4_ConflictingOutcomesMutex ==
    \A a \in DurativeOriginals, b \in DurativeOriginals :
        (a # b /\ ConflictingOutcomes(a, b)) =>
            /\ \A c \in Compiled(start_name(a.name)) :
                  inExecution(object_start(b.name)) \in c.neg_preconditions
            /\ \A c \in Compiled(start_name(b.name)) :
                  inExecution(object_start(a.name)) \in c.neg_preconditions
            /\ ~(InFlight(a) /\ InFlight(b))

\* A is in execution and start_B is held back by nothing but the mutex
C4_Witness ==
    \E a \in DurativeOriginals, b \in DurativeOriginals :
        /\ a # b /\ ConflictingOutcomes(a, b) /\ InFlight(a)
        /\ a.pre_OVERALL = {} /\ b.pre_OVERALL = {}
        /\ \E c \in Compiled(start_name(b.name)) :
              BlockedOnlyBy(c, inExecution(object_start(a.name)))

----------------------------------------------------------------------------
(* C5: when a durative A has an OVERALL precondition f = v and another     *)
(* action B assigns f := not v in its start phase, the compiled action     *)
(* that begins B carries inExecution(start-A) = false and is not legal in  *)
(* any state where A is in execution.                                      *)

C5_StartClobberMutex ==
    \A a \in DurativeOriginals, b \in Range(original) :
        (a # b /\ StartClobbers(a, b)) =>
            \A c \in Beginning(b) :
                /\ inExecution(object_start(a.name)) \in c.neg_preconditions
                /\ InFlight(a) => ~IsLegal(c)

\* A is in execution and an instantaneous B that would clobber its OVERALL
\* precondition is held back by nothing but the mutex
C5_Witness ==
    \E a \in DurativeOriginals, b \in Range(original) :
        /\ ~isDurative(b) /\ StartClobbers(a, b) /\ InFlight(a)
        /\ ~ConflictingOutcomes(a, b)
        /\ \E c \in Beginning(b) :
              BlockedOnlyBy(c, inExecution(object_start(a.name)))

----------------------------------------------------------------------------
EndAfter(a, b) ==
    /\ \A c \in Compiled(end_name(b.name)) :
          inExecution(object_start(a.name)) \in c.neg_preconditions
    /\ ~(last = end_name(b.name) /\ InFlight(a))

\* another rule of the compiler forbids start_B while A is in execution
StartForbidden(a, b) ==
    \/ ConflictingOutcomes(a, b)
    \/ StartClobbers(a, b)
    \/ (EndClobbers(b, a) /\ b.duration > a.duration)

(* C6: when a durative A has an OVERALL precondition f = v and a durative  *)
(* B's end phase assigns f := not v, end_B carries                         *)
(* inExecution(start-A) = false, so end_B is never stepped while A is in   *)
(* execution; the soft mutex itself puts no precondition on start_B, which *)
(* stays allowed while A is in execution unless A and B have conflicting   *)
(* outcomes, B's start phase clobbers an OVERALL precondition of A, or B   *)
(* is itself soft mutex with A and longer than A.                          *)

C6_SoftMutexOrdering ==
    \A a \in DurativeOriginals, b \in DurativeOriginals :
        (a # b /\ EndClobbers(a, b)) =>
            /\ EndAfter(a, b)
            /\ \A c \in Compiled(start_name(b.name)) :
                  (inExecution(object_start(a.name)) \in c.neg_preconditions)
                      <=> StartForbidden(a, b)

\* C6 as stated: start_B stays allowed whenever A is in execution
C6_StartAlwaysAllowed ==
    \A a \in DurativeOriginals, b \in DurativeOriginals :
        (a # b /\ EndClobbers(a, b)) =>
            /\ EndAfter(a, b)
            /\ \A c \in Compiled(start_name(b.name)) :
                  ~BlockedOnlyBy(c, inExecution(object_start(a.name)))

\* B has been started while A is in execution, and end_B now waits for A
C6_Witness ==
    \E a \in DurativeOriginals, b \in DurativeOriginals :
        /\ a # b /\ EndClobbers(a, b) /\ ~StartForbidden(a, b)
        /\ InFlight(a) /\ InFlight(b) /\ last = start_name(b.name)
        /\ \E c \in Compiled(end_name(b.name)) :
              BlockedOnlyBy(c, inExecution(object_start(a.name)))

----------------------------------------------------------------------------
(* C7: when A is soft mutex with a durative B and duration(A) >            *)
(* duration(B), start_A carries inExecution(start-B) = false and is never  *)
(* legal while B is in execution; when duration(A) <= duration(B) this     *)
(* rule adds nothing: start_A carries that precondition only if B is hard  *)
(* mutex with A.                                                           *)

C7_DurationOrdering ==
    \A a \in DurativeOriginals, b \in DurativeOriginals :
        (a # b /\ EndClobbers(a, b)) =>
            \A c \in Compiled(start_name(a.name)) :
                LET ie == inExecution(object_start(b.name)) IN
                /\ a.duration > b.duration =>
                      (ie \in c.neg_preconditions /\ (InFlight(b) => ~IsLegal(c)))
                /\ (/\ a.duration <= b.duration
                    /\ ~ConflictingOutcomes(a, b)
                    /\ ~StartClobbers(b, a)) => ie \notin c.neg_preconditions

\* the shorter B is in execution and start_A is held back only by the rule
C7_Witness ==
    \E a \in DurativeOriginals, b \in DurativeOriginals :
        /\ a # b /\ EndClobbers(a, b) /\ a.duration > b.duration
        /\ ~ConflictingOutcomes(a, b) /\ ~StartClobbers(b, a)
        /\ InFlight(b)
        /\ \E c \in Compiled(start_name(a.name)) :
              BlockedOnlyBy(c, inExecution(object_start(b.name)))

----------------------------------------------------------------------------
(* Scenario "soft mutex with longer first action": A(d=3, OVERALL f=true), *)
(* B(d=1, END f:=false)                                                    *)

NoAction(name, kind) ==
    [name |-> name, kind |-> kind, duration |-> 0, pre |-> {},
     pre_START |-> {}, pre_OVERALL |-> {}, pre_END |-> {},
     start_effects |-> {}, effects |-> {}, probabilistic_effects |-> <<>>]

SoftMutexScenario ==
    <<[NoAction("A", "DurativeAction") EXCEPT
          !.duration = 3, !.pre_OVERALL = {<<"f", TRUE>>}],
      [NoAction("B", "DurativeAction") EXCEPT
          !.duration = 1, !.effects = {<<"f", FALSE>>}]>>

(* C8: in the scenario the duration-ordering rule puts                     *)
(* inExecution(start-B) = false on start_A (not inExecution(start-A) =     *)
(* false on start_B), and the soft mutex puts inExecution(start-A) = false *)
(* on end_B.                                                               *)
C8_ScenarioStartA ==
    original = SoftMutexScenario =>
        /\ \A c \in Compiled("start_A") :
              c.neg_preconditions =
                  {inExecution("start-A"), inExecution("start-B")}
        /\ \A c \in Compiled("start_B") :
              c.neg_preconditions = {inExecution("start-B")}
        /\ \A c \in Compiled("end_B") :
              c.neg_preconditions = {inExecution("start-A")}

\* C8 as stated: start_B and end_B both carry
\* inExecution(start-A) = false
C8_ScenarioStartB ==
    original = SoftMutexScenario =>
        /\ \A c \in Compiled("start_B") :
              inExecution("start-A") \in c.neg_preconditions
        /\ \A c \in Compiled("end_B") :
              inExecution("start-A") \in c.neg_preconditions

\* in the scenario B has been started while A is in execution
C8_Witness ==
    /\ original = SoftMutexScenario
    /\ InFlight(original[1])
    /\ last = "start_B"

----------------------------------------------------------------------------
(* Scenario "hard mutex": A is paint (d=2, during-effect wet:=true), B is  *)
(* sand (d=1, OVERALL wet=false), f is wet                                 *)

HardMutexScenario ==
    <<[NoAction("A", "DurativeAction") EXCEPT
          !.duration = 2, !.start_effects = {<<"f", TRUE>>}],
      [NoAction("B", "DurativeAction") EXCEPT
          !.duration = 1, !.pre_OVERALL = {<<"f", FALSE>>}]>>

(* C9: in the scenario the hard mutex puts inExecution(start-sand) = false *)
(* on start_paint; start_sand carries wet = false and not                  *)
(* inExecution(start-paint) = false.                                       *)
C9_ScenarioStartPaint ==
    original = HardMutexScenario =>
        /\ \A c \in Compiled("start_A") :
              c.neg_preconditions =
                  {inExecution("start-A"), inExecution("start-B")}
        /\ \A c \in Compiled("start_B") :
              c.neg_preconditions = {inExecution("start-B"), "f"}

\* C9 as stated: start_sand carries inExecution(start-paint) = false
C9_ScenarioStartSand ==
    original = HardMutexScenario =>
        \A c \in Compiled("start_B") :
            inExecution("start-A") \in c.neg_preconditions

\* in the scenario paint has been started and start_sand is not legal
C9_Witness ==
    /\ original = HardMutexScenario
    /\ last = "start_A"
    /\ \A c \in Compiled("start_B") : ~IsLegal(c)

(* C10: in the scenario no reachable state has paint and sand in execution *)
(* together, whichever of the two is started first.                        *)
C10_ScenarioSerialised ==
    original = HardMutexScenario =>
        ~(InFlight(original[1]) /\ InFlight(original[2]))

\* in the scenario sand is in execution and start_paint is held back by
\* nothing but the mutex
C10_Witness ==
    /\ original = HardMutexScenario
    /\ InFlight(original[2])
    /\ \E c \in Compiled("start_A") :
          BlockedOnlyBy(c, inExecution("start-B"))

----------------------------------------------------------------------------
(* The MDP                                                                 *)

\* the actions whose positive preconditions hold in s and whose negative
\* preconditions do not
Applicable(s) ==
    {a \in Range(converted) :
        /\ \A p \in a.pos_preconditions : p \in s
        /\ \A p \in a.neg_preconditions : p \notin s}

(* C14: in every state, legal_actions returns exactly the actions whose    *)
(* positive preconditions are all in the state and whose negative          *)
(* preconditions are all outside it, each of them once.                    *)
C14_LegalActionsExact ==
    LET legal == legal_actions(converted, state) IN
    /\ Range(legal) = Applicable(state)
    /\ Cardinality(Range(legal)) = Len(legal)

\* a state reached by a step where one action is legal, a second is held
\* back by a positive precondition and a third by a negative one
C14_Witness ==
    /\ last # ""
    /\ Applicable(state) # {}
    /\ \E a \in Range(converted) : ~(a.pos_preconditions \subseteq state)
    /\ \E a \in Range(converted) :
          /\ a.pos_preconditions \subseteq state
          /\ a.neg_preconditions \cap state # {}

\* the successors of s under a when all adds come before all deletes
DeletesLast(s, a) ==
    {(s \cup a.add_effects \cup pe[1]) \ (a.del_effects \cup pe[2]) :
        pe \in {apply_probabilistic_effects(a, outs) :
                    outs \in Outcomes(a.probabilistic_effects)}}

\* the successor of s under a when the sampled adds and deletes pe are laid
\* over the deterministic effects
SampledOverDeterministic(s, a, pe) ==
    (((s \cup a.add_effects) \ a.del_effects) \cup pe[1]) \ pe[2]

(* C15: a step from s with a leads to ((s + add) - del + sampled adds)     *)
(* - sampled deletes for the outcome drawn from a's probabilistic effects: *)
(* a delete wins over an add of its own phase, and a sampled add wins over *)
(* a deterministic delete.                                                 *)
C15_SampledOverDeterministic ==
    \A a \in Range(converted) :
        \A outs \in Outcomes(a.probabilistic_effects) :
            step(goals, state, a, outs)[2] =
                SampledOverDeterministic(state, a,
                    apply_probabilistic_effects(a, outs))

\* C15 as stated: the successor is (s + add + sampled adds) - (del +
\* sampled deletes), every delete winning over every add
C15_DeletesWin ==
    [][state' \in DeletesLast(state, ActionOf(last'))]_vars

\* the last action deletes a fluent deterministically, also has it in a
\* probabilistic effect, and the fluent is true after the step
C15_Witness ==
    \E c \in Compiled(last) :
        \E fl \in c.del_effects \cap pe_fluents(c.probabilistic_effects) :
            fl \in state

\* C16 as stated: step produces a successor only for an action that is
\* legal in the state it is given
C16_IllegalStepRejected ==
    [][ActionOf(last') \in Range(legal_actions(converted, state))]_vars

(* C17: after every step the terminal flag is true exactly when all goals  *)
(* are in the successor state, and the reward is 10 when it is terminal    *)
(* and 0 otherwise.                                                        *)
C17_TerminalAndReward ==
    last # "" =>
        /\ terminal = (goals \subseteq state)
        /\ reward = IF goals \subseteq state THEN 10 ELSE 0

\* a step has reached the goals from an initial state that misses them
C17_Witness ==
    /\ last # ""
    /\ ~(goals \subseteq initial)
    /\ terminal
    /\ reward = 10

\* the State objects of the latest call to step: the one handed to it and
\* the one it returned
Stepped == objects.input # NoState

PredicatesOf(obj, s) == obj.sets[s.predicates]

ActiveActionsOf(obj, s) ==
    IF s.active_actions = 0 THEN <<>> ELSE obj.queues[s.active_actions]

\* C32: a call of MDP.step or of combinationMDP.step leaves the predicates
\* and the active actions of the State it is given, and every object that
\* existed before the call, as they were; the State it returns holds
\* objects made by the call, with the predicates the step computes.
C32_StepKeepsInput ==
    [][/\ objects'.input = objects.state
       /\ PredicatesOf(objects', objects'.input)
             = PredicatesOf(objects, objects.state)
       /\ ActiveActionsOf(objects', objects'.input)
             = ActiveActionsOf(objects, objects.state)
       /\ \A r \in DOMAIN objects.sets : objects'.sets[r] = objects.sets[r]
       /\ \A r \in DOMAIN objects.queues :
             objects'.queues[r] = objects.queues[r]
       /\ objects'.state.predicates \notin DOMAIN objects.sets
       /\ objects.mdp = "combinationMDP" =>
             objects'.state.active_actions \notin DOMAIN objects.queues
       /\ objects.mdp = "MDP" =>
             \E outs \in Outcomes(ActionOf(last').probabilistic_effects) :
                state' = step(goals, state, ActionOf(last'), outs)[2]]_vars

\* a combinationMDP.step has returned a State whose predicates and whose
\* active actions both differ from those of the State it was given
C32_Witness ==
    /\ Stepped
    /\ objects.mdp = "combinationMDP"
    /\ PredicatesOf(objects, objects.state)
          # PredicatesOf(objects, objects.input)
    /\ ActiveActionsOf(objects, objects.state)
          # ActiveActionsOf(objects, objects.input)

----------------------------------------------------------------------------
(* The compiled actions                                                    *)

\* a set of preconditions or effects gives no fluent two values
Consistent(ps) == \A p, q \in ps : p[1] = q[1] => p[2] = q[2]

\* the fluents a set of preconditions or effects gives the value v
FluentsOf(ps, v) == {p[1] : p \in {q \in ps : q[2] = v}}

\* the OVERALL preconditions of a durative action that no start effect
\* of it satisfies
KeptOverall(a) ==
    {p \in a.pre_OVERALL : \A e \in a.start_effects : ~same_effect(p, e)}

\* every fluent a compiled action mentions
Mentions(c) ==
    c.pos_preconditions \cup c.neg_preconditions \cup c.add_effects
        \cup c.del_effects \cup pe_fluents(c.probabilistic_effects)

SignsDisjoint(c) ==
    /\ c.pos_preconditions \cap c.neg_preconditions = {}
    /\ c.add_effects \cap c.del_effects = {}

(* C24: every compiled action has disjoint positive and negative           *)
(* preconditions and disjoint add and delete effects, except the start     *)
(* action of a durative action whose START preconditions contradict an     *)
(* OVERALL precondition that none of its start effects satisfies.          *)
C24_SignsDisjoint ==
    \A c \in Range(converted) :
        (\A a \in DurativeOriginals :
            c.name = start_name(a.name) =>
                Consistent(a.pre_START \cup KeptOverall(a)))
            => SignsDisjoint(c)

\* C24 as stated: every compiled action has disjoint positive and negative
\* preconditions and disjoint add and delete effects, the preconditions of
\* each timing tag and each effect set being non-contradictory
C24_SignsDisjointPerTag ==
    (\A a \in Range(original) :
        /\ Consistent(a.pre) /\ Consistent(a.pre_START)
        /\ Consistent(a.pre_OVERALL) /\ Consistent(a.pre_END)
        /\ Consistent(a.start_effects) /\ Consistent(a.effects))
        => \A c \in Range(converted) : SignsDisjoint(c)

\* a START precondition contradicts an OVERALL precondition that a start
\* effect satisfies, and an end action carries inExecution preconditions of
\* both signs, one of them from a mutex
C24_Witness ==
    /\ \E a \in DurativeOriginals :
          /\ ~Consistent(a.pre_START \cup a.pre_OVERALL)
          /\ Consistent(a.pre_START \cup KeptOverall(a))
          /\ \A c \in Compiled(start_name(a.name)) :
                c.pos_preconditions # {}
    /\ \E c \in Range(converted) :
          /\ \E x \in c.pos_preconditions : x \notin Fluents
          /\ \E x \in c.neg_preconditions : x \notin Fluents

(* C25: a problem without durative actions compiles to actions of the      *)
(* same names, preconditions, effects and probabilistic effects, in the    *)
(* same order; none mentions inExecution and no sentinel object is made.   *)
C25_InstantaneousUnchanged ==
    (DurativeOriginals = {}) =>
        /\ Len(converted) = Len(original)
        /\ \A i \in 1..Len(original) :
              /\ converted[i].name = original[i].name
              /\ converted[i].pos_preconditions =
                    FluentsOf(original[i].pre, TRUE)
              /\ converted[i].neg_preconditions =
                    FluentsOf(original[i].pre, FALSE)
              /\ converted[i].add_effects =
                    FluentsOf(original[i].effects, TRUE)
              /\ converted[i].del_effects =
                    FluentsOf(original[i].effects, FALSE)
              /\ converted[i].probabilistic_effects =
                    original[i].probabilistic_effects
              /\ Mentions(converted[i]) \subseteq Fluents
        /\ converted_objects(original) = {}

\* two instantaneous actions of opposite effects, with preconditions and a
\* probabilistic effect, have been compiled and one of them has been taken
C25_Witness ==
    /\ DurativeOriginals = {}
    /\ \E a, b \in Range(original) :
          /\ \E e \in a.effects : Opposite(e) \in b.effects
          /\ a.pre # {}
          /\ b.probabilistic_effects # <<>>
    /\ last # ""

\* C28 as stated: the preconditions of the end action of a durative action
\* are its END and its OVERALL preconditions and inExecution(start-A) = true
C28_EndHasEndAndOverall ==
    \A a \in DurativeOriginals :
        \A e \in Compiled(end_name(a.name)) :
            /\ e.pos_preconditions \cap Fluents =
                  FluentsOf(a.pre_END \cup a.pre_OVERALL, TRUE)
            /\ e.neg_preconditions \cap Fluents =
                  FluentsOf(a.pre_END \cup a.pre_OVERALL, FALSE)
            /\ inExecution(object_start(a.name)) \in e.pos_preconditions

\* C34 as stated: for problems whose durative actions have no END
\* precondition, in every reachable state where some durative action is in
\* execution the end action of some action in execution is legal
C34_SomeEndLegal ==
    ((\A a \in DurativeOriginals : a.pre_END = {})
        /\ (\E a \in DurativeOriginals : InFlight(a)))
    => \E a \in DurativeOriginals :
           /\ InFlight(a)
           /\ \E e \in Compiled(end_name(a.name)) : IsLegal(e)

----------------------------------------------------------------------------
(* The search tree                                                         *)

\* the sum over the ANodes of an SNode of their counts less d
ChildCounts(snode, d) ==
    Sum([action \in DOMAIN snode.children |->
            snode.children[action].count - d], DOMAIN snode.children)

(* C19: in the average-backup mode every SNode n of the search tree has    *)
(* n.count = 1 + the sum over its ANodes a of (a.count - 1): every node    *)
(* starts at count 1, and each pass through n adds one to n and to one a.  *)
C19_CountsAboveInitial ==
    \A path \in DOMAIN tree :
        tree[path].count = 1 + ChildCounts(tree[path], 1)

\* C19 as stated: n.count = 1 + the sum of a.count over the ANodes of n
C19_CountIsOnePlusChildren ==
    \A path \in DOMAIN tree :
        tree[path].count = 1 + ChildCounts(tree[path], 0)

\* an SNode below the root has been passed through twice, by two actions
C19_Witness ==
    \E path \in DOMAIN tree :
        /\ path # <<>>
        /\ tree[path].count = 3
        /\ \E a, b \in DOMAIN tree[path].children :
              /\ a # b
              /\ tree[path].children[a].count = 2
              /\ tree[path].children[b].count = 2

(* C20: the possible actions of every SNode are among the keys of its      *)
(* children, and the keys are the legal actions of its state; they are     *)
(* the same set until remove_action takes an action out of the possible    *)
(* actions and leaves its ANode among the children.                        *)
C20_PossibleAmongChildren ==
    \A path \in DOMAIN tree :
        LET snode == tree[path] IN
        /\ Range(snode.possible_actions) \subseteq DOMAIN snode.children
        /\ DOMAIN snode.children =
              {c.name : c \in Range(legal_actions(converted, snode.state))}
        /\ Removed = 0 =>
              Range(snode.possible_actions) = DOMAIN snode.children

\* C20 as stated: the keys of the children are the possible actions
C20_ChildrenArePossible ==
    \A path \in DOMAIN tree :
        DOMAIN tree[path].children = Range(tree[path].possible_actions)

\* an SNode with two children has lost a possible action and has been
\* passed through since
C20_Witness ==
    \E path \in DOMAIN tree :
        /\ Cardinality(DOMAIN tree[path].children) = 2
        /\ Len(tree[path].possible_actions) = 1
        /\ tree[path].count > 1

----------------------------------------------------------------------------
(* Selection and the action returned                                       *)

\* the times uct has returned an action at an SNode: each selection ends
\* with one update of the ANode, whose count starts at 1
Selected(snode, action) == snode.children[action].count - 1

\* C21 as stated: at every SNode each possible action is selected once
\* before any action is selected a second time
C21_EachOnceBeforeAnyTwice ==
    \A path \in DOMAIN tree :
        \A a, b \in Range(tree[path].possible_actions) :
            Selected(tree[path], a) >= 2 => Selected(tree[path], b) >= 1

\* the possible actions of an SNode, by index, and their values
Possible(snode) == 1..Len(snode.possible_actions)

ValueOf(snode, i) == snode.children[snode.possible_actions[i]].value

\* the action of index i is the first of the possible actions whose ANode
\* has the greatest value
FirstGreatestValue(snode, i) ==
    /\ \A k \in Possible(snode) : ValueOf(snode, k) <= ValueOf(snode, i)
    /\ \A k \in 1..(i - 1) : ValueOf(snode, k) < ValueOf(snode, i)

\* the action of index i may be the first of the possible actions whose
\* upper bound is the greatest
FirstGreatestBound(snode, i) ==
    LET action(k) == snode.possible_actions[k] IN
    /\ \A k \in 1..(i - 1) :
          TRUE \in ub_greater(snode, action(i), action(k))
    /\ \A k \in (i + 1)..Len(snode.possible_actions) :
          FALSE \in ub_greater(snode, action(k), action(i))

(* C22: best_action returns the first possible action whose ANode has the  *)
(* greatest accumulated value, not the greatest average or count, and uct  *)
(* returns the first possible action of greatest upper bound.              *)
C22_FirstGreatest ==
    \A path \in DOMAIN tree :
        LET snode == tree[path] IN
        Len(snode.possible_actions) > 0 =>
            /\ \E i \in Possible(snode) :
                  /\ best_action(snode) = snode.possible_actions[i]
                  /\ FirstGreatestValue(snode, i)
            /\ \A a \in uct(snode) :
                  \E i \in Possible(snode) :
                      /\ a = snode.possible_actions[i]
                      /\ FirstGreatestBound(snode, i)

\* at the root best_action returns an action that another one exceeds both
\* in average and in count; at some SNode it returns the first of two
\* actions of the same non-zero value, and at some SNode uct returns the
\* second action
C22_Witness ==
    /\ \E i, j \in Possible(tree[<<>>]) :
          LET snode == tree[<<>>]
              a == snode.children[snode.possible_actions[i]]
              b == snode.children[snode.possible_actions[j]]
          IN  /\ best_action(snode) = snode.possible_actions[i]
              /\ b.value * a.count > a.value * b.count
              /\ b.count > a.count
    /\ \E path \in DOMAIN tree :
          LET snode == tree[path] IN
          /\ Len(snode.possible_actions) = 2
          /\ ValueOf(snode, 1) = ValueOf(snode, 2)
          /\ ValueOf(snode, 1) # 0
          /\ best_action(snode) = snode.possible_actions[1]
    /\ \E path \in DOMAIN tree :
          /\ Len(tree[path].possible_actions) = 2
          /\ uct(tree[path]) = {tree[path].possible_actions[2]}

\* the actions remove_action has taken out of the possible actions of an
\* SNode: their ANodes stay among the children
RemovedActions(snode) ==
    DOMAIN snode.children \ Range(snode.possible_actions)

(* C27: an action that remove_action has taken out of the possible         *)
(* actions of an SNode is returned neither by uct nor by best_action at    *)
(* that SNode in any later state of the search.                            *)
C27_RemovedNeverReturned ==
    \A path \in DOMAIN tree :
        LET snode == tree[path] IN
        \A a \in RemovedActions(snode) :
            /\ best_action(snode) # a
            /\ Len(snode.possible_actions) > 0 => a \notin uct(snode)

\* the removed action of an SNode has a greater value than the possible
\* action that is left, which the search has selected
C27_Witness ==
    \E path \in DOMAIN tree :
        LET snode == tree[path] IN
        \E a \in RemovedActions(snode) :
            /\ Len(snode.possible_actions) > 0
            /\ \A b \in Range(snode.possible_actions) :
                  /\ snode.children[a].value > snode.children[b].value
                  /\ Selected(snode, b) >= 1

\* a node as Node.__init__ leaves it
Fresh(node) == node.count = 1 /\ node.value = 0

\* a count of the next state is the count of this state or one more, and
\* one more when the value has changed
Grows(before, after) ==
    /\ after.count \in {before.count, before.count + 1}
    /\ after.value # before.value => after.count = before.count + 1

(* C29: every SNode and ANode starts with count 1 and value 0; no step of  *)
(* the search or of remove_action takes a node away or lowers a count, an  *)
(* update raises the count by exactly one, and a pass of the search that   *)
(* changes the tree updates the root once.                                 *)
C29_CountsStartAtOneAndGrow ==
    /\ \A path \in DOMAIN tree :
          /\ Fresh(tree[path])
          /\ \A a \in DOMAIN tree[path].children :
                Fresh(tree[path].children[a])
    /\ [][/\ DOMAIN tree \subseteq DOMAIN tree'
          /\ \A path \in DOMAIN tree :
                /\ Grows(tree[path], tree'[path])
                /\ DOMAIN tree'[path].children = DOMAIN tree[path].children
                /\ \A a \in DOMAIN tree[path].children :
                      Grows(tree[path].children[a], tree'[path].children[a])
          /\ \A path \in DOMAIN tree' \ DOMAIN tree :
                /\ Fresh(tree'[path])
                /\ \A a \in DOMAIN tree'[path].children :
                      Fresh(tree'[path].children[a])
          /\ (tree' # tree /\ Removed' = Removed) =>
                tree'[<<>>].count = tree[<<>>].count + 1]_vars

\* an SNode below the root has been created, passed through and has lost
\* a possible action, and the root has been updated three times
C29_Witness ==
    /\ tree[<<>>].count >= 4
    /\ \E path \in DOMAIN tree :
          /\ path # <<>>
          /\ tree[path].count >= 2
          /\ RemovedActions(tree[path]) # {}

\* the sum over the ANodes of an SNode of their values
ChildValues(snode) ==
    Sum([action \in DOMAIN snode.children |->
            snode.children[action].value], DOMAIN snode.children)

(* C30: between two passes of the search loop, where the time budget is    *)
(* tested, every SNode n has n.count - 1 = the sum over its ANodes a of    *)
(* (a.count - 1) and n.value = the sum of a.value: a pass through n adds   *)
(* the same reward once to n and once to one ANode.                        *)
C30_BackupAtomic ==
    \A path \in DOMAIN tree :
        /\ tree[path].count - 1 = ChildCounts(tree[path], 1)
        /\ tree[path].value = ChildValues(tree[path])

\* an SNode has been passed through by two actions whose ANodes hold
\* different values, neither of them 0
C30_Witness ==
    \E path \in DOMAIN tree :
        \E a, b \in DOMAIN tree[path].children :
            /\ tree[path].children[a].value # 0
            /\ tree[path].children[b].value # 0
            /\ tree[path].children[a].value # tree[path].children[b].value

\* the path of the SNode above the ANode that holds the SNode at path
Above(path) == SubSeq(path, 1, Len(path) - 1)

\* the SNode is as it was created: never updated, no ANode of it updated
\* or given an SNode
Untouched(snode) ==
    /\ Fresh(snode)
    /\ \A a \in DOMAIN snode.children :
          /\ Fresh(snode.children[a])
          /\ snode.children[a].children = {}

(* C33: in the tree grown from a root of depth 0, every SNode below the    *)
(* root has the depth of the SNode two levels above it plus 1, no SNode    *)
(* has a depth above search_depth + 1, and an SNode whose depth exceeds    *)
(* search_depth stays as it was created: selection gives the heuristic for *)
(* it and neither steps from it, nor gives it a child, nor updates it.     *)
C33_DepthBound ==
    \A path \in DOMAIN tree :
        /\ tree[path].depth =
              IF path = <<>> THEN 0 ELSE tree[Above(path)].depth + 1
        /\ tree[path].depth <= SearchDepth + 1
        /\ tree[path].depth > SearchDepth =>
              /\ Untouched(tree[path])
              /\ \A q \in DOMAIN tree : q # <<>> => Above(q) # path
              /\ selection(tree, path) \subseteq
                    {<<tree, h>> : h \in HeuristicValues \cup {-100}}

\* an SNode of depth search_depth + 1 with possible actions has been
\* created by one pass and reached again by a later one: the ANode above
\* it has no other SNode, its action has one outcome, and it has been
\* updated twice
C33_Witness ==
    \E path \in DOMAIN tree :
        /\ tree[path].depth = SearchDepth + 1
        /\ Len(tree[path].possible_actions) > 0
        /\ LET name  == path[Len(path)][1]
               anode == tree[Above(path)].children[name]
           IN  /\ ActionOf(name).probabilistic_effects = <<>>
               /\ anode.children = {tree[path].state}
               /\ anode.count >= 3

\* C26 as stated: selection on an SNode that has no possible actions or
\* whose clock exceeds the deadline returns -100 and leaves the tree as it
\* is, in the search of plan (C_MCTS) and of combination_plan (MCTS)
C26_DeadEndReturnsPenalty ==
    \A path \in DOMAIN tree :
        (Len(tree[path].possible_actions) = 0
             \/ Clock(path) > driver.deadline)
            => selection(tree, path) = {<<tree, -100>>}

----------------------------------------------------------------------------
(* The planner drivers                                                     *)

\* C11 as stated: plan never returns success with a makespan above the
\* deadline
C11_NoSuccessAboveDeadline ==
    (driver.entry = "plan" /\ driver.result.status = "success") =>
        driver.result.makespan <= driver.deadline

\* plan is about to step the action its search returned
Committing ==
    /\ driver.entry = "plan"
    /\ driver.pc = "searched"
    /\ driver.action # "-1"

(* C31: every action plan steps is a legal action of the state it is       *)
(* stepped from, the state that follows is an outcome of that step, and    *)
(* nothing else changes the state of plan: the actions committed form a    *)
(* legal trajectory of the MDP from the initial state.                     *)
C31_CommittedIsLegal ==
    /\ (driver.entry = "plan" => state = initial_state(initial) /\ last = "")
    /\ [][driver.entry = "plan" =>
            IF Committing
            THEN /\ IsLegal(ActionOf(driver.action))
                 /\ last' = driver.action
                 /\ \E outs \in Outcomes(ActionOf(driver.action)
                                             .probabilistic_effects) :
                       state' = step(goals, state, ActionOf(driver.action),
                                     outs)[2]
            ELSE UNCHANGED <<state, last>>]_vars

\* plan has stepped start_A and then end_A, which was not legal before
\* start_A, and is about to step a further action in a state where some
\* action of the problem is not legal
C31_Witness ==
    /\ Committing
    /\ last = end_name("A")
    /\ \E c \in Range(converted) : ~IsLegal(c)

\* C12 as stated: plan eventually returns
C12_PlanReturns ==
    (driver.entry = "plan") => <>(driver.pc = "done")

\* C23 as stated: when plan has committed an action and stepped to a state
\* that is among the SNodes of the root's ANode of that action, that SNode
\* is the root_node of the next search, and otherwise there is none and a
\* new root is built
C23_RootReused ==
    [][(driver.entry = "plan" /\ driver.pc = "searched"
            /\ driver.action # "-1" /\ driver'.pc # "searched")
        => driver'.root_node =
              IF state' \in driver.children
              THEN {<<<<driver.action, state'>>>>} ELSE {}]_vars

\* C13 as stated: when the search returns the sentinel, the driver, plan or
\* combination_plan, returns failure
C13_SentinelFails ==
    (driver.pc = "done" /\ driver.action = "-1") =>
        driver.result.status = "failure"

----------------------------------------------------------------------------
(* Randomness                                                              *)

\* C18 as stated: two runs given the same calls from the same state have
\* the same successors and the same chosen actions
C18_RunsAgree ==
    /\ runs[1].state = runs[2].state
    /\ runs[1].action = runs[2].action

=============================================================================
